---- MODULE Spec2Model ----
(***************************************************************************)
(* Model of the crawl engine of scraper.py: the scope filter, the link      *)
(* extractor, the content extractor, the fetcher with its rendered/static   *)
(* fallback, and the crawl loop over frontier / visited set / pages.        *)
(* URLs and hyperlink references are strings; urlparse and urljoin are      *)
(* computed character by character as urllib computes them.                 *)
(***************************************************************************)
EXTENDS Integers, Sequences, FiniteSets, TLC

(***************************************************************************)
(* Strings (str methods used by the program)                                *)
(***************************************************************************)

\* s[i:j] with 1-based inclusive bounds
Sub(s, i, j) == SubSeq(s, i, j)

\* s[i:] (1-based)
From(s, i) == SubSeq(s, i, Len(s))

\* str.startswith
startswith(s, p) == Len(p) <= Len(s) /\ SubSeq(s, 1, Len(p)) = p

\* the `in` operator on two strings (substring test)
contains(s, p) == \E i \in 1..(Len(s) - Len(p) + 1) : SubSeq(s, i, i + Len(p) - 1) = p

\* the indices at which the one-character string c occurs in s
hits(s, c) == { i \in 1..Len(s) : SubSeq(s, i, i) = c }

\* the least element of a set of indices, 0 for the empty set
first(I) == IF I = {} THEN 0 ELSE CHOOSE i \in I : \A j \in I : i <= j

\* str.find for a one-character needle: 1-based index of the first hit, 0 when absent
find(s, c) == first(hits(s, c))

\* index of the first character of s that is one of the characters of delims, 0 when none
findAny(s, delims) ==
    first({ i \in 1..Len(s) : \E k \in 1..Len(delims) : SubSeq(s, i, i) = SubSeq(delims, k, k) })

UpperChars == "ABCDEFGHIJKLMNOPQRSTUVWXYZ"
LowerChars == "abcdefghijklmnopqrstuvwxyz"
SchemeExtra == "0123456789+-."

lowerAt(c, i) == IF i = 0 THEN c ELSE SubSeq(LowerChars, i, i)

lowerChar(c) == lowerAt(c, find(UpperChars, c))

RECURSIVE lower(_)
\* str.lower
lower(s) == IF s = "" THEN "" ELSE lowerChar(SubSeq(s, 1, 1)) \o lower(From(s, 2))

isalpha(c) == contains(UpperChars, c) \/ contains(LowerChars, c)

RECURSIVE split(_, _)
\* the fields of s given the index i of the first separator
splitAt(s, sep, i) ==
    IF i = 0 THEN << s >>
    ELSE << Sub(s, 1, i - 1) >> \o split(From(s, i + 1), sep)

\* str.split(sep) for a one-character separator: the sequence of fields
split(s, sep) == splitAt(s, sep, find(s, sep))

RECURSIVE join(_, _)
\* sep.join(parts)
join(parts, sep) ==
    IF parts = << >> THEN ""
    ELSE IF Len(parts) = 1 THEN parts[1]
    ELSE parts[1] \o sep \o join(Tail(parts), sep)

(***************************************************************************)
(* urllib.parse (urlparse, urlunparse, urljoin) as scraper.py uses it       *)
(***************************************************************************)

\* the scheme test of urlsplit, i the index of the first ':' (0 when none):
\* a letter-led run of scheme characters before the ':'
hasScheme(u, i) ==
    /\ i > 1
    /\ isalpha(Sub(u, 1, 1))
    /\ \A k \in 1..(i - 1) :
          \/ isalpha(Sub(u, k, k))
          \/ contains(SchemeExtra, Sub(u, k, k))

\* urlsplit, step 1: scheme and the rest
splitScheme(u, default, i) ==
    IF hasScheme(u, i)
    THEN [scheme |-> lower(Sub(u, 1, i - 1)), rest |-> From(u, i + 1)]
    ELSE [scheme |-> default, rest |-> u]

\* cut s at index e (0: no delimiter): the part before e and the part from e on
cutAt(s, e) ==
    IF e = 0 THEN [head |-> s, tail |-> ""]
    ELSE [head |-> Sub(s, 1, e - 1), tail |-> From(s, e)]

\* urlsplit, step 2: a rest that starts with '//' carries a netloc, up to '/', '?' or '#'
netlocOf(rest) ==
    IF startswith(rest, "//")
    THEN cutAt(From(rest, 3), findAny(From(rest, 3), "/?#"))
    ELSE [head |-> "", tail |-> rest]

\* s.split(c, 1): the part before the first c and the part after it
partition(s, i) ==
    IF i = 0 THEN [head |-> s, tail |-> ""]
    ELSE [head |-> Sub(s, 1, i - 1), tail |-> From(s, i + 1)]

\* urlsplit, steps 3 and 4: fragment, then query, then path
assemble(scheme, netloc, pq, fragment) ==
    [scheme |-> scheme, netloc |-> netloc, path |-> pq.head, query |-> pq.tail,
     fragment |-> fragment]

splitFragment(scheme, netloc, pf) ==
    assemble(scheme, netloc, partition(pf.head, find(pf.head, "?")), pf.tail)

splitNetloc(scheme, nl) ==
    splitFragment(scheme, nl.head, partition(nl.tail, find(nl.tail, "#")))

splitRest(sr) == splitNetloc(sr.scheme, netlocOf(sr.rest))

\* urlparse(u, default_scheme): scheme, netloc, path, query, fragment
\* (the ';' parameters of a path are not modelled: no reference carries one)
urlparse(u, default) == splitRest(splitScheme(u, default, find(u, ":")))

\* schemes of urllib's uses_relative / uses_netloc lists that the model meets
UsesRelative == {"", "http", "https", "ftp", "file"}
UsesNetloc == {"", "http", "https", "ftp", "file"}

\* urlunparse
unparseFragment(u, p) == IF p.fragment # "" THEN u \o "#" \o p.fragment ELSE u

unparseQuery(u, p) == unparseFragment(IF p.query # "" THEN u \o "?" \o p.query ELSE u, p)

unparseScheme(u, p) == unparseQuery(IF p.scheme # "" THEN p.scheme \o ":" \o u ELSE u, p)

urlunparse(p) ==
    unparseScheme(IF p.netloc # "" \/ (p.scheme \in UsesNetloc /\ ~startswith(p.path, "//"))
                  THEN "//" \o p.netloc
                            \o (IF p.path # "" /\ ~startswith(p.path, "/") THEN "/" ELSE "")
                            \o p.path
                  ELSE p.path,
                  p)

RECURSIVE dropEmpty(_)
\* filter(None, segments)
dropEmpty(segs) ==
    IF segs = << >> THEN << >>
    ELSE IF Head(segs) = "" THEN dropEmpty(Tail(segs))
    ELSE << Head(segs) >> \o dropEmpty(Tail(segs))

RECURSIVE resolveDots(_, _)
\* the dot-segment loop of urljoin: '..' pops, '.' is skipped
resolveDots(segs, acc) ==
    IF segs = << >> THEN acc
    ELSE IF Head(segs) = ".."
         THEN resolveDots(Tail(segs),
                          IF Len(acc) > 0 THEN SubSeq(acc, 1, Len(acc) - 1) ELSE acc)
    ELSE IF Head(segs) = "." THEN resolveDots(Tail(segs), acc)
    ELSE resolveDots(Tail(segs), Append(acc, Head(segs)))

\* base_parts: the base path's segments without its last (file) segment
baseParts(bp) == IF bp[Len(bp)] # "" THEN SubSeq(bp, 1, Len(bp) - 1) ELSE bp

\* segments[1:-1] = filter(None, segments[1:-1])
squeeze(segs) ==
    IF Len(segs) > 2
    THEN << segs[1] >> \o dropEmpty(SubSeq(segs, 2, Len(segs) - 1)) \o << segs[Len(segs)] >>
    ELSE segs

\* the segments urljoin resolves: the reference's own when it is rooted
segments(bpath, path) ==
    IF startswith(path, "/") THEN split(path, "/")
    ELSE squeeze(baseParts(split(bpath, "/")) \o split(path, "/"))

\* '/'.join(resolved_path) or '/'
orRoot(path) == IF path = "" THEN "/" ELSE path

resolvedPath(segs) ==
    orRoot(join(IF segs[Len(segs)] \in { ".", ".." }
                THEN Append(resolveDots(segs, << >>), "")
                ELSE resolveDots(segs, << >>), "/"))

\* urljoin with both URLs parsed: b the base, r the reference
joinParsed(url, b, r) ==
    IF r.scheme # b.scheme \/ r.scheme \notin UsesRelative THEN url
    ELSE IF r.scheme \in UsesNetloc /\ r.netloc # "" THEN urlunparse(r)
    ELSE IF r.path = ""
         THEN urlunparse([r EXCEPT !.netloc = b.netloc, !.path = b.path,
                                   !.query = IF r.query = "" THEN b.query ELSE r.query])
    ELSE urlunparse([r EXCEPT !.netloc = b.netloc,
                              !.path = resolvedPath(segments(b.path, r.path))])

joinBase(url, b) == joinParsed(url, b, urlparse(url, b.scheme))

\* urljoin(base, url)
urljoin(base, url) ==
    IF base = "" THEN url
    ELSE IF url = "" THEN base
    ELSE joinBase(url, urlparse(base, ""))

(***************************************************************************)
(* The network the crawl runs against: what a static GET and a rendered     *)
(* navigation return for each URL.  A document is what BeautifulSoup parses *)
(* out of the HTML: the title element (absent = << >>), the href of every   *)
(* <a href> in document order, the container elements in document order,    *)
(* the body markup ("" = no body) and the whole markup.                     *)
(***************************************************************************)

El(tag, cls, id, markup) == [tag |-> tag, cls |-> cls, id |-> id, markup |-> markup]

Doc(title, hrefs, els, body, markup) ==
    [title |-> title, hrefs |-> hrefs, els |-> els, body |-> body, markup |-> markup]

UrlA   == "https://ex.com/docs/a"
UrlB   == "https://ex.com/docs/b"
UrlC   == "https://ex.com/docs/c"
UrlX   == "https://ex.com/blog/x"
UrlLX  == "https://ex.com/login/x"
UrlLY  == "https://ex.com/login/y"

\* pages served to requests.get with a success status; every other URL is a 404
StaticSite ==
    (UrlA :> Doc(<< " Docs A " >>,
                 << "/docs/b", "/blog/x", "/docs/login", "#top" >>,
                 << El("div", "content", "", "a.div"), El("main", "", "", "a.main") >>,
                 "a.body", "a.doc"))
    @@
    (UrlB :> Doc(<< "B" >>,
                 << "c", "/docs/a", "https://other.com/docs/z", "/docs/Sign_In",
                    "/docs/c#s", "/docs/c" >>,
                 << El("div", "article-body", "", "b.div"), El("article", "", "", "b.art") >>,
                 "b.body", "b.doc"))
    @@
    (UrlC :> Doc(<< >>,
                 << "/docs/b", "c2", "../blog/x", "mailto:c@ex.com" >>,
                 << El("div", "", "content", "c.div") >>,
                 "c.body", "c.doc"))
    @@
    (UrlX :> Doc(<< "X" >>, << "../docs/a", "", "//ex.com/docs/c" >>, << >>, "", "x.doc"))
    @@
    (UrlLX :> Doc(<< "LX" >>, << "y", "/login/y" >>, << >>, "lx.body", "lx.doc"))
    @@
    (UrlLY :> Doc(<< "LY" >>, << "x", "/Logout" >>, << >>, "ly.body", "ly.doc"))

\* the error page a browser shows for a URL the server does not know
\* (page.goto does not raise on an HTTP error status)
NotFoundDoc == Doc(<< "404" >>, << >>, << >>, "404.body", "404.doc")

\* the DOM after scripts ran: page b gains a script-inserted link
RenderedDoc(url) ==
    IF url \notin DOMAIN StaticSite THEN NotFoundDoc
    ELSE IF url = UrlB
         THEN [StaticSite[url] EXCEPT !.hrefs = Append(@, "/docs/e"), !.markup = "b.rendered"]
    ELSE StaticSite[url]

\* what the environment does to one attempt of a strategy
Outcomes == {"ok", "error"}

\* the rendering engine is not consulted when render mode is off
Engines(use_pw) == IF use_pw THEN Outcomes ELSE {"unused"}

(***************************************************************************)
(* Link extractor                                                           *)
(***************************************************************************)

skip_patterns == << "sign_in", "login", "logout", "recover", "reset", "register", "#" >>

\* the pattern test without .lower()
skipped_case_sensitive(href) ==
    \/ startswith(href, "#")
    \/ \E k \in 1..Len(skip_patterns) : contains(href, skip_patterns[k])

\* the two `continue` tests of the loop over the anchors
skipped(href) ==
    \/ startswith(href, "#")
    \/ \E k \in 1..Len(skip_patterns) : contains(lower(href), skip_patterns[k])

\* urljoin, then full.split('#')[0]
resolve(base_url, href) == split(urljoin(base_url, href), "#")[1]

get_links(html, base_url) ==
    { resolve(base_url, html.hrefs[i]) :
        i \in { j \in 1..Len(html.hrefs) : ~skipped(html.hrefs[j]) } }

(***************************************************************************)
(* The runs explored                                                        *)
(***************************************************************************)

MaxPages == 3

Seeds == { UrlA, UrlC, UrlLX }

\* values of --path-prefix / the path_prefix argument; "" is the absent prefix
PrefixArgs == { "", "https://ex.com/docs/", "/blog" }

\* every string a run hands to urlparse: seeds, prefixes and extracted links
Universe ==
    Seeds \cup PrefixArgs \cup
    UNION { get_links(StaticSite[u], u) \cup get_links(RenderedDoc(u), u) :
              u \in DOMAIN StaticSite }

\* urlparse(u) for every string of the universe
parsed == [u \in Universe |-> urlparse(u, "")]

\* the (url, html) pairs a call of fetch can return
Fetchable ==
    { << u, StaticSite[u] >> : u \in DOMAIN StaticSite } \cup
    { << u, RenderedDoc(u) >> : u \in Universe }

\* get_links(html, url) for each of them: the value of `links` in crawl
extracted == [p \in Fetchable |-> get_links(p[2], p[1])]

(***************************************************************************)
(* Scope filter                                                             *)
(***************************************************************************)

same_domain(a, b) == parsed[a].netloc = parsed[b].netloc

is_within_prefix(url, prefix) == startswith(parsed[url].path, parsed[prefix].path)

(***************************************************************************)
(* Content extractor and title                                              *)
(***************************************************************************)

selectors == << "main", "article", "div.doc-content", "div.content", "div#content",
                "div.article-body" >>

\* does element el match the CSS selector sel (tag, tag.class or tag#id)
matchesAt(el, sel, dot, hash) ==
    IF dot > 0 THEN el.tag = Sub(sel, 1, dot - 1) /\ el.cls = From(sel, dot + 1)
    ELSE IF hash > 0 THEN el.tag = Sub(sel, 1, hash - 1) /\ el.id = From(sel, hash + 1)
    ELSE el.tag = sel

matches(el, sel) == matchesAt(el, sel, find(sel, "."), find(sel, "#"))

\* soup.select_one: the first matching element in document order, << >> when none
elementAt(html, i) == IF i = 0 THEN << >> ELSE << html.els[i] >>

select_one(html, sel) ==
    elementAt(html, first({ i \in 1..Len(html.els) : matches(html.els[i], sel) }))

RECURSIVE first_selected(_, _)
\* the first element in document order that matches any selector from the k-th on
first_in_document(html, k) ==
    elementAt(html, first({ i \in 1..Len(html.els) :
                              \E j \in k..Len(selectors) : matches(html.els[i], selectors[j]) }))

\* the loop over the selectors from the k-th on: the first element found, << >> when none
orNext(html, k, el) == IF el # << >> THEN el ELSE first_selected(html, k + 1)

first_selected(html, k) ==
    IF k > Len(selectors) THEN << >>
    ELSE orNext(html, k, select_one(html, selectors[k]))

\* str(el) for the element found, else str(soup.body or soup)
content(html, el) ==
    IF el # << >> THEN el[1].markup
    ELSE IF html.body # "" THEN html.body
    ELSE html.markup

extract_main_content(html) == content(html, first_selected(html, 1))

RECURSIVE lstrip(_)
lstrip(s) == IF startswith(s, " ") THEN lstrip(From(s, 2)) ELSE s

RECURSIVE rstrip(_)
rstrip(s) == IF s # "" /\ Sub(s, Len(s), Len(s)) = " " THEN rstrip(Sub(s, 1, Len(s) - 1)) ELSE s

\* str.strip
strip(s) == rstrip(lstrip(s))

\* title.get_text().strip() if title else url
title_text(html, url) == IF html.title # << >> THEN strip(html.title[1]) ELSE url

(***************************************************************************)
(* Fetcher.  A fetch result records the outcome and, for the analysis, how  *)
(* many attempts each strategy made during the call and the calls it made   *)
(* on the network and on the rendering engine, in order (ops).  The engine  *)
(* outcome "error" is page.goto raising (navigation error or timeout).      *)
(* Cookies are only forwarded to the engine and are not modelled.           *)
(***************************************************************************)

Raised == [title |-> << >>, hrefs |-> << >>, els |-> << >>, body |-> "", markup |-> "raised"]

Result(ok, html, rendered, static) ==
    [ok |-> ok, html |-> html, rendered |-> rendered, static |-> static, ops |-> << >>]

\* the result r of a strategy that made the calls ops
did(r, ops) == [r EXCEPT !.ops = ops]

\* requests.get + raise_for_status: net is what the network does to this request
fetch_requests(url, net) ==
    did(IF net = "ok" /\ url \in DOMAIN StaticSite
        THEN Result(TRUE, StaticSite[url], 0, 1)
        ELSE Result(FALSE, Raised, 0, 1),
        << "requests.get" >>)

\* the branch for a caller-supplied context: a page of the context is opened,
\* navigated, read and closed; page.goto raising leaves the statements after it undone
shared_page(url, engine) ==
    IF engine = "ok"
    THEN did(Result(TRUE, RenderedDoc(url), 1, 0),
             << "context.new_page", "page.goto", "page.content", "page.close" >>)
    ELSE did(Result(FALSE, Raised, 1, 0),
             << "context.new_page", "page.goto" >>)

\* the branch without a context, the Playwright instance started without `with`:
\* page.goto raising leaves it running
fresh_session_unscoped(url, engine) ==
    IF engine = "ok"
    THEN did(Result(TRUE, RenderedDoc(url), 1, 0),
             << "sync_playwright.__enter__", "chromium.launch", "browser.new_context",
                "browser_context.new_page", "page.goto", "page.content", "browser.close",
                "sync_playwright.__exit__" >>)
    ELSE did(Result(FALSE, Raised, 1, 0),
             << "sync_playwright.__enter__", "chromium.launch", "browser.new_context",
                "browser_context.new_page", "page.goto" >>)

\* the branch without a context: `with sync_playwright() as p` starts a Playwright
\* instance and stops it, and with it the browser it launched, however the block is left
fresh_session(url, engine) ==
    IF engine = "ok"
    THEN did(Result(TRUE, RenderedDoc(url), 1, 0),
             << "sync_playwright.__enter__", "chromium.launch", "browser.new_context",
                "browser_context.new_page", "page.goto", "page.content", "browser.close",
                "sync_playwright.__exit__" >>)
    ELSE did(Result(FALSE, Raised, 1, 0),
             << "sync_playwright.__enter__", "chromium.launch", "browser.new_context",
                "browser_context.new_page", "page.goto", "sync_playwright.__exit__" >>)

\* the Playwright branch of fetch: engine is what the rendering engine does,
\* ctx is "shared" when the caller supplied a context and "none" otherwise
fetch_rendered(url, ctx, engine) ==
    IF ctx = "shared" THEN shared_page(url, engine) ELSE fresh_session(url, engine)

\* the try block without its except branch: a rendered failure is the call's failure
tried_no_fallback(url, net, r) == r

\* the except branch of fetch: r is the failed rendered attempt, f the static fetch
fallback(r, f) == [f EXCEPT !.rendered = r.rendered + f.rendered, !.ops = r.ops \o f.ops]

\* the try block of fetch: r is the rendered attempt
tried(url, net, r) == IF r.ok THEN r ELSE fallback(r, fetch_requests(url, net))

fetch(url, use_pw, ctx, engine, net) ==
    IF use_pw THEN tried(url, net, fetch_rendered(url, ctx, engine))
    ELSE fetch_requests(url, net)

(***************************************************************************)
(* Crawl engine                                                             *)
(***************************************************************************)


VARIABLES
    entry,           \* "main": started from the command line; "crawl": crawl() called directly
    start_url, max_pages, path_prefix, use_playwright,   \* arguments of crawl
    context,         \* argument of crawl: "shared" for a caller-supplied context, else "none"
    seen, to_visit, pages,                               \* locals of crawl
    pc,              \* "loop": at the while test; "done": crawl has returned
    dequeued,        \* log: every to_visit.pop(0), with what became of the URL
    fetched,         \* log: every call of fetch, with its inputs and result
    appended,        \* log: every to_visit.append, with the page the link came from
    sleeps           \* number of time.sleep(delay) calls

vars == << entry, start_url, max_pages, path_prefix, use_playwright, context, seen, to_visit,
           pages, pc, dequeued, fetched, appended, sleeps >>

config == << entry, start_url, max_pages, path_prefix, use_playwright, context >>

\* __main__ without the default: an absent --path-prefix stays absent
main_prefix_absent(start, arg) == arg

\* __main__: an absent --path-prefix becomes the start URL
main_prefix(start, arg) == IF arg = "" THEN start ELSE arg

\* __main__ calls crawl without a context
Contexts(e) == IF e = "main" THEN { "none" } ELSE { "none", "shared" }

Init ==
    /\ entry \in { "main", "crawl" }
    /\ start_url \in Seeds
    /\ max_pages \in 1..MaxPages
    /\ use_playwright \in BOOLEAN
    /\ context \in Contexts(entry)
    /\ \E arg \in PrefixArgs :
          path_prefix = IF entry = "main" THEN main_prefix(start_url, arg) ELSE arg
    /\ seen = {}
    /\ to_visit = << start_url >>
    /\ pages = << >>
    /\ pc = "loop"
    /\ dequeued = << >>
    /\ fetched = << >>
    /\ appended = << >>
    /\ sleeps = 0

\* the while test with the cap one too low
looping_one_short == pc = "loop" /\ to_visit # << >> /\ Len(pages) < max_pages - 1

\* the while test with <= for <
looping_off_by_one == pc = "loop" /\ to_visit # << >> /\ Len(pages) <= max_pages

\* the while test
looping == pc = "loop" /\ to_visit # << >> /\ Len(pages) < max_pages

InSeq(x, q) == \E i \in 1..Len(q) : q[i] = x

\* the three `continue` tests before the fetch
out_of_scope(url) ==
    \/ ~same_domain(start_url, url)
    \/ (path_prefix # "" /\ ~is_within_prefix(url, path_prefix))

\* the append test without the same_domain conjunct
wanted_any_domain(l, sn, tv) ==
    /\ l \notin sn
    /\ ~InSeq(l, tv)
    /\ (path_prefix = "" \/ is_within_prefix(l, path_prefix))

\* the append test without `l not in to_visit`
wanted_requeue(l, sn, tv) ==
    /\ l \notin sn
    /\ same_domain(start_url, l)
    /\ (path_prefix = "" \/ is_within_prefix(l, path_prefix))

\* the append test without `l not in seen`
wanted_seen_again(l, sn, tv) ==
    /\ ~InSeq(l, tv)
    /\ same_domain(start_url, l)
    /\ (path_prefix = "" \/ is_within_prefix(l, path_prefix))

\* the append test without the path-prefix test
wanted_any_path(l, sn, tv) ==
    /\ l \notin sn
    /\ ~InSeq(l, tv)
    /\ same_domain(start_url, l)

\* the test that guards to_visit.append(l)
wanted(l, sn, tv) ==
    /\ l \notin sn
    /\ ~InSeq(l, tv)
    /\ same_domain(start_url, l)
    /\ (path_prefix = "" \/ is_within_prefix(l, path_prefix))

RECURSIVE enqueue_front(_, _, _)
\* the loop over the links with to_visit.insert(0, l) for to_visit.append(l)
enqueue_front(order, sn, tv) ==
    IF order = << >> THEN tv
    ELSE enqueue_front(Tail(order), sn,
                       IF wanted(Head(order), sn, tv) THEN << Head(order) >> \o tv ELSE tv)

RECURSIVE enqueue(_, _, _)
\* `for l in links`, taken in the order `order`
enqueue(order, sn, tv) ==
    IF order = << >> THEN tv
    ELSE enqueue(Tail(order), sn,
                 IF wanted(Head(order), sn, tv) THEN Append(tv, Head(order)) ELSE tv)

RECURSIVE Orders(_)
\* the orders in which a set can be iterated
Orders(S) ==
    IF S = {} THEN { << >> }
    ELSE UNION { { << x >> \o o : o \in Orders(S \ { x }) } : x \in S }

\* a log entry for a call of fetch; slept is the number of time.sleep calls before it
Call(url, engine, net, res) ==
    [url |-> url, use_playwright |-> use_playwright, context |-> context,
     engine |-> engine, net |-> net, result |-> res, slept |-> sleeps]

\* one iteration that ends in one of the `continue`s before the fetch
Skip ==
    /\ looping
    /\ Head(to_visit) \in seen \/ out_of_scope(Head(to_visit))
    /\ to_visit' = Tail(to_visit)
    /\ dequeued' = Append(dequeued, [url |-> Head(to_visit), outcome |-> "skipped"])
    /\ UNCHANGED << config, seen, pages, pc, fetched, appended, sleeps >>

\* the except branch without seen.add(url)
failed_not_seen(url, call) ==
    /\ fetched' = Append(fetched, call)
    /\ to_visit' = Tail(to_visit)
    /\ dequeued' = Append(dequeued, [url |-> url, outcome |-> "failed"])
    /\ UNCHANGED << config, seen, pages, pc, appended, sleeps >>

\* no except branch: the exception leaves crawl
failed_abort(url, call) ==
    /\ fetched' = Append(fetched, call)
    /\ to_visit' = Tail(to_visit)
    /\ dequeued' = Append(dequeued, [url |-> url, outcome |-> "failed"])
    /\ pc' = "done"
    /\ UNCHANGED << config, seen, pages, appended, sleeps >>

\* the except branch with a page record for the URL that failed
failed_recorded(url, call) ==
    /\ fetched' = Append(fetched, call)
    /\ seen' = seen \cup { url }
    /\ pages' = Append(pages, [url |-> url, title |-> url, html |-> ""])
    /\ to_visit' = Tail(to_visit)
    /\ dequeued' = Append(dequeued, [url |-> url, outcome |-> "failed"])
    /\ UNCHANGED << config, pc, appended, sleeps >>

\* the except branch of the iteration: fetch raised for url
failed(url, call) ==
    /\ fetched' = Append(fetched, call)
    /\ seen' = seen \cup { url }
    /\ to_visit' = Tail(to_visit)
    /\ dequeued' = Append(dequeued, [url |-> url, outcome |-> "failed"])
    /\ UNCHANGED << config, pages, pc, appended, sleeps >>

\* the log entries for the URLs the iteration appended: tv from the n-th entry on
appends(url, tv, n) == [i \in 1..(Len(tv) - n) |-> [url |-> tv[n + i], from |-> url]]

\* the frontier after the loop over the links is tv
looped(url, tv) ==
    /\ to_visit' = tv
    /\ appended' = appended \o appends(url, tv, Len(to_visit) - 1)

\* the loop over the links, in one of the orders the set can be iterated in
enqueued(url, links) ==
    \E order \in Orders(links) :
        looped(url, enqueue(order, seen \cup { url }, Tail(to_visit)))

\* the rest of the iteration without seen.add(url)
succeeded_not_seen(url, call, html) ==
    /\ fetched' = Append(fetched, call)
    /\ pages' = Append(pages, [url |-> url, title |-> title_text(html, url),
                               html |-> extract_main_content(html)])
    /\ \E order \in Orders(extracted[<< url, html >>]) :
          looped(url, enqueue(order, seen, Tail(to_visit)))
    /\ dequeued' = Append(dequeued, [url |-> url, outcome |-> "fetched"])
    /\ sleeps' = sleeps + 1
    /\ UNCHANGED << config, seen, pc >>

\* the rest of the iteration: fetch returned html for url
succeeded(url, call, html) ==
    /\ fetched' = Append(fetched, call)
    /\ seen' = seen \cup { url }
    /\ pages' = Append(pages, [url |-> url, title |-> title_text(html, url),
                               html |-> extract_main_content(html)])
    /\ enqueued(url, extracted[<< url, html >>])
    /\ dequeued' = Append(dequeued, [url |-> url, outcome |-> "fetched"])
    /\ sleeps' = sleeps + 1
    /\ UNCHANGED << config, pc >>

\* the URL at the front of the frontier passes the tests before the fetch
fetching == looping /\ Head(to_visit) \notin seen /\ ~out_of_scope(Head(to_visit))

\* one iteration in which fetch raises
FetchFail ==
    /\ fetching
    /\ \E engine \in Engines(use_playwright), net \in Outcomes :
          /\ ~fetch(Head(to_visit), use_playwright, context, engine, net).ok
          /\ failed(Head(to_visit),
                    Call(Head(to_visit), engine, net,
                         fetch(Head(to_visit), use_playwright, context, engine, net)))

\* one iteration in which fetch returns: record the page, enqueue its links, sleep
FetchOk ==
    /\ fetching
    /\ \E engine \in Engines(use_playwright), net \in Outcomes :
          /\ fetch(Head(to_visit), use_playwright, context, engine, net).ok
          /\ succeeded(Head(to_visit),
                       Call(Head(to_visit), engine, net,
                            fetch(Head(to_visit), use_playwright, context, engine, net)),
                       fetch(Head(to_visit), use_playwright, context, engine, net).html)

\* the while test fails: return pages
Return ==
    /\ pc = "loop"
    /\ ~looping
    /\ pc' = "done"
    /\ UNCHANGED << config, seen, to_visit, pages, dequeued, fetched, appended, sleeps >>

Next == Skip \/ FetchFail \/ FetchOk \/ Return

Spec == Init /\ [][Next]_vars

\* the loop is sequential code: an enabled iteration is eventually executed
FairSpec == Spec /\ WF_vars(Next)

(***************************************************************************)
(* Properties                                                               *)
(***************************************************************************)

\* what the logs say about a run
steps == Len(dequeued)
discards == Cardinality({ i \in 1..Len(dequeued) : dequeued[i].outcome = "skipped" })
failures == Cardinality({ i \in 1..Len(dequeued) : dequeued[i].outcome = "failed" })
fetchedUrls == { fetched[i].url : i \in 1..Len(fetched) }
okCalls == { i \in 1..Len(fetched) : fetched[i].result.ok }

\* the links of the page the i-th call of fetch returned
linksOf(i) == extracted[<< fetched[i].url, fetched[i].result.html >>]

\* C1: fetch is invoked at most once per URL: the log of fetch calls holds no URL
\* twice, and the visited set is exactly the set of URLs fetch was called on, so a
\* URL in the visited set is never fetched again.
C1_FetchedAtMostOnce ==
    /\ \A i, j \in 1..Len(fetched) : fetched[i].url = fetched[j].url => i = j
    /\ seen = fetchedUrls

\* a page fetched later links back to a URL fetched earlier
C1_Witness ==
    \E i, j \in okCalls : i < j /\ fetched[i].url \in linksOf(j)

\* C2: every URL ever appended to the frontier has the seed's authority (netloc) and,
\* when a prefix is configured, a path that starts with the prefix's path.
C2_AppendedInScope ==
    \A i \in 1..Len(appended) :
        /\ parsed[appended[i].url].netloc = parsed[start_url].netloc
        /\ path_prefix # "" =>
              startswith(parsed[appended[i].url].path, parsed[path_prefix].path)

\* with a prefix configured, a page carrying an off-site link and an out-of-prefix
\* link was fetched and links of it were appended
C2_Witness ==
    /\ path_prefix # ""
    /\ \E i \in okCalls, k \in 1..Len(appended) :
          /\ appended[k].from = fetched[i].url
          /\ \E l \in linksOf(i) : ~same_domain(start_url, l)
          /\ \E l \in linksOf(i) : same_domain(start_url, l)
                                     /\ ~is_within_prefix(l, path_prefix)

\* C3: the frontier never holds a URL twice.
C3_FrontierNoDuplicates ==
    \A i, j \in 1..Len(to_visit) : to_visit[i] = to_visit[j] => i = j

\* two fetched pages both link to a URL that waits in the frontier
C3_Witness ==
    \E i, j \in okCalls :
        /\ i # j
        /\ \E l \in linksOf(i) \cap linksOf(j) : InSeq(l, to_visit)

\* C4 as stated: the number of steps is at most maxPages plus the number of dequeues
\* that were discarded (already visited or out of scope).
C4_StepsWithinCapPlusDiscards == steps <= max_pages + discards

\* C4 amended: the crawl returns, and the number of steps is at most maxPages plus
\* the number of failed fetches plus the number of discarded dequeues.
C4_Terminates ==
    /\ <>(pc = "done")
    /\ [](steps <= max_pages + failures + discards)

\* the crawl has returned after more steps than maxPages, some of them failed fetches
C4_Witness == pc = "done" /\ failures > 0 /\ steps > max_pages

\* C5: the pages never outnumber maxPages; with maxPages = 1 and a seed that was
\* fetched successfully, the one page is the seed's and nothing else was fetched.
C5_PageCap ==
    /\ Len(pages) <= max_pages
    /\ (max_pages = 1 /\ fetched # << >> /\ fetched[1].result.ok) =>
          /\ Len(pages) = 1
          /\ pages[1].url = start_url
          /\ Len(fetched) = 1

\* maxPages = 1, the crawl has returned with the seed's page, in-scope links still queued
C5_Witness ==
    pc = "done" /\ max_pages = 1 /\ Len(pages) = 1 /\ to_visit # << >>

\* C6: a step in which fetch raises adds the URL to the visited set, leaves pages
\* alone, takes nothing but the URL off the frontier, appends nothing, and leaves the
\* crawl in its loop; a crawl whose seed fetch failed has no pages.
C6_FailureIsPerUrl ==
    /\ [][(Len(fetched') = Len(fetched) + 1 /\ ~fetched'[Len(fetched')].result.ok) =>
            /\ seen' = seen \cup { Head(to_visit) }
            /\ pages' = pages
            /\ to_visit' = Tail(to_visit)
            /\ appended' = appended
            /\ pc' = "loop"]_vars
    /\ []((fetched # << >> /\ ~fetched[1].result.ok) => pages = << >>)

\* a fetch failed and the crawl went on to fetch another URL
C6_Witness ==
    \E i \in 1..Len(fetched) : ~fetched[i].result.ok /\ i < Len(fetched)

\* what a call of fetch returned to its caller
outcome(res) == << res.ok, res.html >>

\* C7: in render mode a failed rendered attempt is followed by exactly one static
\* attempt whose outcome is the call's outcome; a successful rendered attempt is
\* followed by no static attempt; with render mode off there is no rendered attempt.
C7_FallbackOnce ==
    \A i \in 1..Len(fetched) :
        LET c == fetched[i]
        IN  /\ c.result.rendered <= 1 /\ c.result.static <= 1
            /\ (c.use_playwright /\ c.engine = "error") =>
                  /\ c.result.rendered = 1 /\ c.result.static = 1
                  /\ outcome(c.result) = outcome(fetch_requests(c.url, c.net))
            /\ (c.use_playwright /\ c.engine = "ok") =>
                  /\ c.result.rendered = 1 /\ c.result.static = 0
                  /\ outcome(c.result) = << TRUE, RenderedDoc(c.url) >>
            /\ ~c.use_playwright => c.result.rendered = 0 /\ c.result.static = 1

\* render mode, the rendered attempt failed and the static fallback returned the page
C7_Witness ==
    \E i \in 1..Len(fetched) :
        fetched[i].use_playwright /\ fetched[i].engine = "error" /\ fetched[i].result.ok

\* the scenario: seed .../docs/a, whose page links to /docs/b, /blog/x, /docs/login
\* and #top, has just been processed
C8_Processed ==
    /\ start_url = UrlA
    /\ Len(dequeued) = 1
    /\ dequeued[1].outcome = "fetched"
    /\ fetched[1].result.html.hrefs = << "/docs/b", "/blog/x", "/docs/login", "#top" >>

\* C8 as stated: after the step that processes a, the frontier is exactly .../docs/b.
C8_FrontierIsDocsB == C8_Processed => to_visit = << UrlB >>

\* C8 amended: with the path prefix https://ex.com/docs/ supplied, the frontier after
\* the step that processes a is exactly .../docs/b.
C8_FrontierIsDocsBUnderDocsPrefix ==
    (C8_Processed /\ path_prefix = "https://ex.com/docs/") => to_visit = << UrlB >>

\* the scenario under the prefix https://ex.com/docs/
C8_Witness == C8_Processed /\ path_prefix = "https://ex.com/docs/"

\* the references the link extractor is to discard
C9_Excluded(href) ==
    \/ startswith(href, "#")
    \/ \E p \in { "sign_in", "login", "logout", "recover", "reset", "register", "#" } :
          contains(lower(href), p)

\* what the references of each page that are not to be discarded resolve to
C9_KeptOf ==
    [p \in Fetchable |->
        { split(urljoin(p[1], p[2].hrefs[k]), "#")[1] :
            k \in { n \in 1..Len(p[2].hrefs) : ~C9_Excluded(p[2].hrefs[n]) } }]

C9_Kept(i) == C9_KeptOf[<< fetched[i].url, fetched[i].result.html >>]

\* C9: a fragment-only or auth-pattern reference contributes nothing to the link
\* extractor's result, nothing it alone resolves to is appended to the frontier, and
\* no extracted URL contains '#'.
C9_ExcludedNeverQueued ==
    /\ \A i \in okCalls :
          /\ linksOf(i) \subseteq C9_Kept(i)
          /\ \A l \in linksOf(i) : ~contains(l, "#")
    /\ \A k \in 1..Len(appended) :
          \E i \in okCalls : appended[k].from = fetched[i].url /\ appended[k].url \in C9_Kept(i)

\* a page with discarded references was fetched and links of it were appended
C9_Witness ==
    \E i \in okCalls, k \in 1..Len(appended) :
        /\ appended[k].from = fetched[i].url
        /\ \E n \in 1..Len(fetched[i].result.html.hrefs) :
              startswith(fetched[i].result.html.hrefs[n], "#")
        /\ \E n \in 1..Len(fetched[i].result.html.hrefs) :
              /\ ~startswith(fetched[i].result.html.hrefs[n], "#")
              /\ C9_Excluded(fetched[i].result.html.hrefs[n])

dequeuedUrls == { dequeued[i].url : i \in 1..Len(dequeued) }

\* C10 as stated: when crawl has returned, the visited set is as large as the set of
\* URLs dequeued.
C10_SeenCountsDequeued == pc = "done" => Cardinality(seen) = Cardinality(dequeuedUrls)

\* C10 amended: when crawl has returned, the visited set is the set of dequeued URLs
\* that passed the scope test, and the only dequeued URL outside it is a seed outside
\* the configured prefix.
C10_SeenCountsFetched ==
    pc = "done" =>
        /\ seen = { dequeued[i].url : i \in { j \in 1..Len(dequeued) :
                                                 dequeued[j].outcome # "skipped" } }
        /\ Cardinality(seen) = steps - discards
        /\ dequeuedUrls \ seen \subseteq
              { u \in { start_url } : path_prefix # "" /\ ~is_within_prefix(u, path_prefix) }

\* crawl has returned after fetches that succeeded and fetches that failed
C10_Witness ==
    /\ pc = "done"
    /\ \E i, j \in 1..Len(dequeued) :
          dequeued[i].outcome = "failed" /\ dequeued[j].outcome = "fetched"

\* the calls of fetch that returned, in the order they were made
okFetched == SelectSeq(fetched, LAMBDA c : c.result.ok)

\* C11: the urls of the page records are, in order, the URLs whose fetch succeeded in
\* the order the fetches completed, no two records share a url, every record's url is
\* in the visited set, and a step leaves every existing record as and where it was.
C11_PagePerFetchedUrl ==
    /\ []( /\ Len(pages) = Len(okFetched)
           /\ \A i \in 1..Len(pages) : pages[i].url = okFetched[i].url /\ pages[i].url \in seen
           /\ \A i, j \in 1..Len(pages) : pages[i].url = pages[j].url => i = j )
    /\ [][ /\ Len(pages') >= Len(pages)
           /\ \A i \in 1..Len(pages) : pages'[i] = pages[i] ]_vars

\* two pages are recorded, a fetch failed between their fetches, and the later page
\* links back to the earlier one
C11_Witness ==
    /\ Len(pages) >= 2
    /\ \E i, j, k \in 1..Len(fetched) :
          /\ i < j /\ j < k
          /\ fetched[i].result.ok /\ ~fetched[j].result.ok /\ fetched[k].result.ok
          /\ fetched[i].url \in linksOf(k)

\* the prefixes a caller can supply
SuppliedPrefixes == PrefixArgs \ { "" }

\* no path prefix was supplied: crawl ran with none, or __main__ put the start URL in
\* its place
NoPrefixSupplied == path_prefix \notin SuppliedPrefixes

\* the URLs fetched or appended to the frontier have a path that starts with the seed's
UnderSeedPath ==
    /\ \A i \in 1..Len(fetched) :
          startswith(parsed[fetched[i].url].path, parsed[start_url].path)
    /\ \A i \in 1..Len(appended) :
          startswith(parsed[appended[i].url].path, parsed[start_url].path)

\* C12 as stated: when no path prefix is supplied, every URL fetched or enqueued has a
\* path that starts with the seed URL's path.
C12_DefaultPrefixIsSeedPath == NoPrefixSupplied => UnderSeedPath

\* C12 amended: when the crawl is started from the command line and no path prefix is
\* supplied, the prefix is the seed URL, so its path is the seed's path, and every URL
\* fetched or enqueued has a path that starts with the seed URL's path.
C12_MainDefaultsPrefixToSeed ==
    (entry = "main" /\ NoPrefixSupplied) =>
        /\ path_prefix = start_url
        /\ parsed[path_prefix].path = parsed[start_url].path
        /\ UnderSeedPath

\* started from the command line without a prefix: a page linked to paths outside the
\* seed's, and a link under the seed's path was enqueued and fetched
C12_Witness ==
    /\ entry = "main" /\ NoPrefixSupplied
    /\ \E i \in okCalls :
          \E l \in linksOf(i) :
              same_domain(start_url, l) /\ ~startswith(parsed[l].path, parsed[start_url].path)
    /\ \E k \in 1..Len(appended) : appended[k].url \in fetchedUrls

\* how often a call of fetch made the engine or network call op
count(c, op) == Cardinality({ n \in 1..Len(c.result.ops) : c.result.ops[n] = op })

\* the position of the first op among the calls a call of fetch made, 0 when absent
position(c, op) == first({ n \in 1..Len(c.result.ops) : c.result.ops[n] = op })

\* the calls of fetch in shared-session mode
sharedCalls == { i \in 1..Len(fetched) : fetched[i].use_playwright /\ fetched[i].context = "shared" }

\* the pages of the caller's context that calls of fetch opened and did not close
open_pages ==
    Cardinality({ i \in sharedCalls :
                    count(fetched[i], "context.new_page") > count(fetched[i], "page.close") })

\* C13: in shared-session mode every call of fetch opens exactly one page in the
\* session and has closed it when it returns, whether navigation succeeded or failed,
\* and never closes the session, so after any sequence of calls the session holds no
\* open page.
C13_SharedPageClosed ==
    /\ \A i \in sharedCalls :
          /\ count(fetched[i], "context.new_page") = 1
          /\ count(fetched[i], "page.close") = 1
          /\ position(fetched[i], "context.new_page") < position(fetched[i], "page.close")
          /\ count(fetched[i], "context.close") = 0
    /\ open_pages = 0

\* the selectors in the order the content extractor is to try them
C14_Priority ==
    << "main", "article", "div.doc-content", "div.content", "div#content", "div.article-body" >>

\* the priorities that some element of the document matches
C14_Matched(d) ==
    { k \in 1..Len(C14_Priority) : \E n \in 1..Len(d.els) : matches(d.els[n], C14_Priority[k]) }

\* the markup of the elements that match the selector of the best matched priority
C14_Best(d, k) ==
    { d.els[n].markup : n \in { m \in 1..Len(d.els) : matches(d.els[m], C14_Priority[k]) } }

\* what the content extractor may return for document d
C14_Expected(d) ==
    IF C14_Matched(d) # {} THEN C14_Best(d, first(C14_Matched(d)))
    ELSE IF d.body # "" THEN { d.body }
    ELSE { d.markup }

\* C14: the content of every page record is the element matched by the first selector,
\* in the fixed order, that matches anything in the fetched document, wherever the
\* elements stand in the document; the body when no selector matches; the whole
\* document when there is no body either; and equal documents give equal content.
C14_ContentBySelectorPriority ==
    /\ Len(pages) = Len(okFetched)
    /\ \A i \in 1..Len(pages) : pages[i].html \in C14_Expected(okFetched[i].result.html)
    /\ \A i, j \in 1..Len(pages) :
          okFetched[i].result.html = okFetched[j].result.html => pages[i].html = pages[j].html

\* a recorded page whose document has an element of a lower-priority selector before
\* the element of the best one, and a recorded page without any match and without body
C14_Witness ==
    /\ \E i \in 1..Len(pages) :
          \E m, n \in 1..Len(okFetched[i].result.html.els) :
              /\ m < n
              /\ pages[i].html = okFetched[i].result.html.els[n].markup
              /\ \E k \in C14_Matched(okFetched[i].result.html) :
                    matches(okFetched[i].result.html.els[m], C14_Priority[k])
    /\ \E j \in 1..Len(pages) :
          /\ C14_Matched(okFetched[j].result.html) = {}
          /\ okFetched[j].result.html.body = ""
          /\ pages[j].html = okFetched[j].result.html.markup

\* C15: between any two consecutive calls of fetch in one crawl the delay is applied
\* once, whether the earlier call returned or raised.
C15_DelayBetweenFetches ==
    \A i \in 1..(Len(fetched) - 1) : fetched[i + 1].slept = fetched[i].slept + 1

\* the scope test of the crawl: the seed's netloc and, with a prefix, a path under it
inScope(l) == same_domain(start_url, l) /\ (path_prefix = "" \/ is_within_prefix(l, path_prefix))

\* the in-scope URLs one link hop away from the successfully fetched pages among S
hop(S) ==
    { l \in UNION { linksOf(i) : i \in { j \in okCalls : fetched[j].url \in S } } : inScope(l) }

RECURSIVE within(_)
\* the in-scope URLs at most k link hops from the seed along successfully fetched pages
grow(S) == S \cup hop(S)

within(k) == IF k = 0 THEN { u \in { start_url } : inScope(u) } ELSE grow(within(k - 1))

\* discovery depth of u, given the table lv of within(0), within(1), ...
depthIn(lv, u) == CHOOSE k \in DOMAIN lv : u \in lv[k] /\ \A m \in DOMAIN lv : u \in lv[m] => k <= m

\* the depths along a log of URLs never decrease
C16_Ordered(lv, urls) ==
    /\ \A i \in 1..Len(urls) : \E k \in DOMAIN lv : urls[i] \in lv[k]
    /\ \A i \in 1..(Len(urls) - 1) : depthIn(lv, urls[i]) <= depthIn(lv, urls[i + 1])

\* C16: a step that changes the frontier takes the URL at its front and adds the new
\* URLs at its end, URLs are fetched in non-decreasing order of discovery depth (link
\* hops from the seed along successfully fetched in-scope pages), and the page records
\* are in non-decreasing order of depth.
C16_BreadthFirst ==
    /\ [](LET lv == [k \in 0..Len(fetched) |-> within(k)]
          IN  /\ C16_Ordered(lv, [i \in 1..Len(fetched) |-> fetched[i].url])
              /\ C16_Ordered(lv, [i \in 1..Len(pages) |-> pages[i].url]))
    /\ [][to_visit' # to_visit =>
            /\ to_visit # << >>
            /\ Len(to_visit') >= Len(to_visit) - 1
            /\ SubSeq(to_visit', 1, Len(to_visit) - 1) = Tail(to_visit)
            /\ Len(dequeued') = Len(dequeued) + 1
            /\ dequeued'[Len(dequeued')].url = Head(to_visit)]_vars

\* two URLs of depth 1 were fetched and then a URL of depth 2 that the first of them
\* linked to: it waited in the frontier behind the second
C16_Witness ==
    \E i, j, k \in 1..Len(fetched) :
        /\ i < j /\ j < k
        /\ fetched[i].url \in within(1) \ within(0)
        /\ fetched[j].url \in within(1) \ within(0)
        /\ fetched[k].url \in within(2) \ within(1)
        /\ fetched[i].result.ok /\ fetched[k].url \in linksOf(i)

\* the fetch outcomes of a run, fixed per URL: what the run's call of fetch returned
\* for a URL it fetched, and a fetch that meets no error for a URL it did not fetch
outcomeOf(u) ==
    IF u \in fetchedUrls
    THEN fetched[CHOOSE i \in 1..Len(fetched) : fetched[i].url = u].result
    ELSE fetch(u, use_playwright, context, IF use_playwright THEN "ok" ELSE "unused", "ok")

\* one fixed order in which to iterate a set of links
fixedOrder(S) == CHOOSE o \in Orders(S) : TRUE

RECURSIVE replay(_, _, _)
\* the rest of an iteration of the replayed loop, res the fetch outcome for url
replayed(url, res, sn, tv, pgs) ==
    IF ~res.ok THEN replay(sn, tv, pgs)
    ELSE replay(sn, enqueue(fixedOrder(extracted[<< url, res.html >>]), sn, tv),
                Append(pgs, url))

\* an iteration of the replayed loop for the URL popped from the frontier
replayAt(url, sn, tv, pgs) ==
    IF url \in sn \/ out_of_scope(url) THEN replay(sn, tv, pgs)
    ELSE replayed(url, outcomeOf(url), sn \cup { url }, tv, pgs)

\* the crawl loop run again from the locals sn, tv, pgs (the urls of pages) under the
\* same configuration and fetch outcomes, every link set iterated in its fixed order
replay(sn, tv, pgs) ==
    IF tv = << >> \/ Len(pgs) >= max_pages THEN pgs
    ELSE replayAt(Head(tv), sn, Tail(tv), pgs)

\* the URLs of the page records
pageUrls == { pages[i].url : i \in 1..Len(pages) }

\* the URLs of the page records of the replayed crawl
replayUrls == { replay({}, << start_url >>, << >>)[i] :
                  i \in 1..Len(replay({}, << start_url >>, << >>)) }

\* C17: for a fixed site, fixed fetch outcomes and fixed configuration, the set of
\* URLs of the returned page records is the same whatever the order in which each
\* page's link set is iterated: the crawl returns the URLs that the same crawl returns
\* with every link set iterated in one fixed order.
C17_OrderInsignificant == pc = "done" => pageUrls = replayUrls

\* the calls of fetch in render mode without a caller-supplied context
freshCalls == { i \in 1..Len(fetched) : fetched[i].use_playwright /\ fetched[i].context = "none" }

\* the Playwright instances that calls of fetch started and did not stop
open_sessions ==
    Cardinality({ i \in 1..Len(fetched) :
                    count(fetched[i], "sync_playwright.__enter__")
                        > count(fetched[i], "sync_playwright.__exit__") })

\* C18: in render mode without a supplied session every call of fetch creates one
\* rendering session and releases it before it returns, after a successful capture and
\* after a navigation error alike, and before the static fallback runs; no other call
\* creates one; so in every state, the end of the crawl included, no session created by
\* the fetcher is open.
C18_NoSessionLeak ==
    /\ \A i \in freshCalls :
          /\ count(fetched[i], "sync_playwright.__enter__") = 1
          /\ count(fetched[i], "sync_playwright.__exit__") = 1
          /\ position(fetched[i], "sync_playwright.__enter__")
                < position(fetched[i], "sync_playwright.__exit__")
          /\ position(fetched[i], "page.goto") < position(fetched[i], "sync_playwright.__exit__")
          /\ count(fetched[i], "requests.get") > 0 =>
                position(fetched[i], "sync_playwright.__exit__")
                    < position(fetched[i], "requests.get")
    /\ \A i \in (1..Len(fetched)) \ freshCalls :
          count(fetched[i], "sync_playwright.__enter__") = 0
    /\ open_sessions = 0

\* the page cap ended the crawl with URLs still queued, after a call whose navigation
\* failed and whose static fallback returned the page, and a call that captured a page
C18_Witness ==
    /\ pc = "done" /\ Len(pages) = max_pages /\ to_visit # << >>
    /\ \E i, j \in freshCalls :
          /\ fetched[i].engine = "error" /\ fetched[i].result.ok
          /\ fetched[j].engine = "ok"

\* C19: in every state no URL of the frontier is in the visited set, so the URL at the
\* front is never discarded for being visited, and the only dequeue ever discarded is
\* the first one, of the seed, by the scope test.
C19_FrontierDisjointFromSeen ==
    /\ \A i \in 1..Len(to_visit) : to_visit[i] \notin seen
    /\ \A i \in 1..Len(dequeued) :
          dequeued[i].outcome = "skipped" =>
              /\ i = 1
              /\ dequeued[i].url = start_url
              /\ out_of_scope(start_url)

\* URLs are queued while a page fetched later has linked back to a visited page
C19_Witness ==
    /\ to_visit # << >>
    /\ \E i \in 1..Len(fetched), j \in okCalls :
          i < j /\ fetched[i].url \in linksOf(j) /\ inScope(fetched[i].url)

\* the in-scope URLs reachable from the seed through successfully fetched pages
reachable == within(Len(fetched))

\* C20: when crawl has returned with fewer than maxPages page records, the visited set
\* is the set of in-scope URLs reachable from the seed by links the extractor keeps
\* through successfully fetched pages, and the page records are those of them whose
\* own fetch succeeded.
C20_CompleteBelowCap ==
    (pc = "done" /\ Len(pages) < max_pages) =>
        /\ hop(reachable) \subseteq reachable
        /\ seen = reachable
        /\ pageUrls = { u \in reachable : \E i \in okCalls : fetched[i].url = u }

\* crawl has returned below the cap with two pages or more, after a failed fetch and
\* with a link that the scope test refused
C20_Witness ==
    /\ pc = "done" /\ Len(pages) < max_pages /\ Len(pages) >= 2
    /\ failures > 0
    /\ \E i \in okCalls : \E l \in linksOf(i) : ~inScope(l)

====
